---- MODULE Spec2Model ----
(***************************************************************************)
(* A model of the libStorage Go client, api/client/client.go: Dial (the    *)
(* construction of the client handle), the request dispatcher httpDo with  *)
(* its codec and diagnostic logging, the public queries Root and Volumes,  *)
(* and the local device scanner getLocalDevices.                           *)
(*                                                                         *)
(* Go strings are TLA+ strings; Len, \o and SubSeq act on them as on       *)
(* sequences of characters.  A nil error is the string NoErr.              *)
(***************************************************************************)
EXTENDS Integers, Sequences, FiniteSets, TLC

VARIABLES
    dial,        \* the call of Dial: its arguments, and how it ended
    c,           \* the client struct Dial built (client.go:38-47)
    cancelled,   \* whether the context held in c.ctx has been cancelled
    x,           \* per caller: the exchange (one Root, Volumes or httpPost call)
    lastDial,    \* the arguments and the result of the latest dialer invocation
    log,         \* what logRequest and logResponse have written to the logger
    calls,       \* number of calls started so far
    fs,          \* the local devices file: readable or not, and its content
    scan         \* the call of getLocalDevices

vars == <<dial, c, cancelled, x, lastDial, log, calls, fs, scan>>

-----------------------------------------------------------------------------
(* Bounds of the model *)

\* number of Root, Volumes and httpPost calls started in one behaviour
MaxCalls == 2
\* number of lines of a local devices file
MaxLines == 3

\* the concurrent callers of the client
Callers == {"g1", "g2"}

-----------------------------------------------------------------------------
(* Values *)

NoErr == "<nil>"
ErrHostRequired == "libstorage.host is required"
ErrTLS == "tls: invalid certificate or key material"
ErrInvalidAddress == "invalid address"
ErrMarshal == "json: unsupported type"
ErrNewRequest == "net/http: invalid request"
ErrTransport == "transport error"
ErrCanceled == "context canceled"
ErrReadBody == "unexpected EOF"
ErrUnmarshal == "json: cannot unmarshal"
ErrReadFile == "open: no such file or directory"

\* the absent *tls.Config
NilTLS == [present |-> FALSE, ServerName |-> ""]

\* the nil gofig.Config and the configurations Dial is called with
NilConfig == [isNil |-> TRUE]

TLSSettings ==
    { [requested |-> FALSE, material |-> "ok",  serverName |-> ""],
      [requested |-> TRUE,  material |-> "bad", serverName |-> ""],
      [requested |-> TRUE,  material |-> "ok",  serverName |-> ""],
      [requested |-> TRUE,  material |-> "ok",  serverName |-> "storage.example"] }

Hosts ==
    {"", "10.0.0.1:7979", "tcp://10.0.0.1:7979", "tcp://bad host:7979",
     "unix:///run/ls.sock"}

\* the value of libstorage.client.localdevicesfile
DevicesFile == "/proc/partitions"

Configs ==
    { [isNil |-> FALSE, host |-> h, tls |-> t, logrequest |-> lq, logresponse |-> ls,
       localdevicesfile |-> DevicesFile] :
        h \in Hosts, t \in TLSSettings, lq \in BOOLEAN, ls \in BOOLEAN }

\* the ctx argument of Dial: nil, or a cancellable context of the caller
NilCtx == [kind |-> "nil", host |-> ""]
UserCtx == [kind |-> "user", host |-> ""]

NoClient ==
    [config |-> NilConfig, httpClient |-> [cProto |-> "", cLaddr |-> "", tlsConfig |-> NilTLS],
     proto |-> "", laddr |-> "", tlsConfig |-> NilTLS,
     logRequests |-> FALSE, logResponses |-> FALSE, ctx |-> NilCtx]

-----------------------------------------------------------------------------
(* Dial *)

\* gotil.ParseAddress: <scheme>://<rest> with a known network scheme and a
\* non-empty rest; anything else is an "invalid address" error.
Schemes ==
    {"tcp", "tcp4", "tcp6", "udp", "udp4", "udp6", "ip", "ip4", "ip6",
     "unix", "unixgram", "unixpacket"}

ParseAddress(addr) ==
    LET ok == { s \in Schemes :
                  /\ Len(addr) > Len(s) + 3
                  /\ SubSeq(addr, 1, Len(s) + 3) = s \o "://" }
    IN  IF ok = {}
        THEN [proto |-> "", laddr |-> "", err |-> ErrInvalidAddress]
        ELSE LET s == CHOOSE s \in ok : TRUE
             IN  [proto |-> s, laddr |-> SubSeq(addr, Len(s) + 4, Len(addr)),
                  err |-> NoErr]

\* utils.ParseTLSConfig on the libstorage.client scope: no TLS requested gives
\* an absent configuration; unreadable or malformed material is an error.
ParseTLSConfig(scope) ==
    IF ~scope.requested
    THEN [tlsConfig |-> NilTLS, err |-> NoErr]
    ELSE IF scope.material # "ok"
    THEN [tlsConfig |-> NilTLS, err |-> ErrTLS]
    ELSE [tlsConfig |-> [present |-> TRUE, ServerName |-> scope.serverName],
          err |-> NoErr]

\* The three ways a call of Dial ends.
DialPanics == [state |-> "panicked", client |-> FALSE, err |-> NoErr]
DialFails(err) == [state |-> "returned", client |-> FALSE, err |-> err]
DialSucceeds == [state |-> "returned", client |-> TRUE, err |-> NoErr]

\* Mutant of DialResult: the error of ParseTLSConfig is dropped and the
\* client is built without TLS.
DialResultIgnoringTLSError(ctx, config) ==
    IF config.isNil
    THEN [ret |-> DialPanics, client |-> NoClient]
    ELSE IF config.host = ""
    THEN [ret |-> DialFails(ErrHostRequired), client |-> NoClient]
    ELSE LET tls == ParseTLSConfig(config.tls)
             pa  == ParseAddress(config.host)
         IN  IF pa.err # NoErr
             THEN [ret |-> DialFails(pa.err), client |-> NoClient]
             ELSE [ret |-> DialSucceeds,
                   client |->
                     [config |-> config,
                      httpClient |-> [cProto |-> pa.proto, cLaddr |-> pa.laddr,
                                      tlsConfig |-> tls.tlsConfig],
                      proto |-> pa.proto, laddr |-> pa.laddr,
                      tlsConfig |-> tls.tlsConfig,
                      logRequests |-> config.logrequest,
                      logResponses |-> config.logresponse,
                      ctx |-> [kind |-> IF ctx.kind = "nil" THEN "background" ELSE ctx.kind,
                               host |-> config.host]]]

\* Dial(ctx, config): what it returns and the client it builds.  c.config is
\* used (GetBool) before anything checks it, so a nil config panics.
DialResult(ctx, config) ==
    IF config.isNil
    THEN [ret |-> DialPanics, client |-> NoClient]
    ELSE IF config.host = ""
    THEN [ret |-> DialFails(ErrHostRequired), client |-> NoClient]
    ELSE LET tls == ParseTLSConfig(config.tls)
             pa  == ParseAddress(config.host)
         IN  IF tls.err # NoErr
             THEN [ret |-> DialFails(tls.err), client |-> NoClient]
             ELSE IF pa.err # NoErr
             THEN [ret |-> DialFails(pa.err), client |-> NoClient]
             ELSE [ret |-> DialSucceeds,
                   client |->
                     [config |-> config,
                      httpClient |-> [cProto |-> pa.proto, cLaddr |-> pa.laddr,
                                      tlsConfig |-> tls.tlsConfig],
                      proto |-> pa.proto, laddr |-> pa.laddr,
                      tlsConfig |-> tls.tlsConfig,
                      logRequests |-> config.logrequest,
                      logResponses |-> config.logresponse,
                      ctx |-> [kind |-> IF ctx.kind = "nil" THEN "background" ELSE ctx.kind,
                               host |-> config.host]]]

-----------------------------------------------------------------------------
(* The dialer of the HTTP transport *)

\* Mutant of Dialer: a pass-through dialer, which connects where the HTTP
\* transport asks to.
PassThroughDialer(cl, proto, addr) ==
    [network |-> proto, address |-> addr, tls |-> cl.httpClient.tlsConfig.present]

\* The Dial closure of the http.Transport: net.Dial(cProto, cLaddr) without a
\* TLS configuration, tls.Dial(cProto, cLaddr, tlsConfig) with one.  The
\* closure reads the variables of Dial it captured, not its arguments.
Dialer(cl, proto, addr) ==
    IF ~cl.httpClient.tlsConfig.present
    THEN [network |-> cl.httpClient.cProto, address |-> cl.httpClient.cLaddr,
          tls |-> FALSE]
    ELSE [network |-> cl.httpClient.cProto, address |-> cl.httpClient.cLaddr,
          tls |-> TRUE]

NoDial == [called |-> FALSE, proto |-> "", addr |-> "",
           conn |-> [network |-> "", address |-> "", tls |-> FALSE]]

-----------------------------------------------------------------------------
(* The codec *)

\* payloads: nil, a value json.Marshal encodes, a value it rejects
NilPayload == [kind |-> "nil", name |-> ""]
Payloads == { [kind |-> "map", name |-> "vol1"], [kind |-> "chan", name |-> ""] }

\* encPayload: a nil payload is a nil body and no error
EncPayload(payload) ==
    IF payload.kind = "nil"
    THEN [body |-> "", err |-> NoErr]
    ELSE IF payload.kind = "chan"
    THEN [body |-> "", err |-> ErrMarshal]
    ELSE [body |-> "{\"name\":\"" \o payload.name \o "\"}", err |-> NoErr]

\* the caller's reply container before decoding, and a nil result
EmptyReply(target) == [isNil |-> FALSE, type |-> target, json |-> ""]
NilReply == [isNil |-> TRUE, type |-> "", json |-> ""]

\* response bodies a server may send; readable is FALSE when reading the body fails
Responses ==
    { [readable |-> TRUE,  text |-> "[\"volumes\",\"snapshots\"]"],
      [readable |-> TRUE,  text |-> "{\"svc\":[]}"],
      [readable |-> TRUE,  text |-> "not-json"],
      [readable |-> FALSE, text |-> ""] }
NoResponse == [readable |-> FALSE, text |-> ""]

\* the JSON kind of a text, by its first character
JSONKind(text) ==
    IF Len(text) = 0 THEN "invalid"
    ELSE IF Head(text) = "[" /\ SubSeq(text, Len(text), Len(text)) = "]" THEN "array"
    ELSE IF Head(text) = "{" /\ SubSeq(text, Len(text), Len(text)) = "}" THEN "object"
    ELSE "invalid"

\* decRes: ioutil.ReadAll then json.Unmarshal into the reply container; an
\* array decodes into a []string, an object into a map.
DecRes(body, reply) ==
    IF ~body.readable
    THEN [reply |-> reply, err |-> ErrReadBody]
    ELSE IF \/ reply.type = "[]string" /\ JSONKind(body.text) = "array"
            \/ reply.type = "map" /\ JSONKind(body.text) = "object"
    THEN [reply |-> [reply EXCEPT !.json = body.text], err |-> NoErr]
    ELSE [reply |-> reply, err |-> ErrUnmarshal]

-----------------------------------------------------------------------------
(* Diagnostic logging *)

\* Mutant of LogRequest: logging is gated by the response flag.
LogRequestByResponseFlag(cl, lg, dumpFails) ==
    IF ~cl.logResponses THEN lg
    ELSE IF dumpFails THEN lg \cup {"request banner"}
    ELSE lg \cup {"request banner", "request dump"}

\* logRequest: nothing unless c.logRequests; the banner, and then the dump
\* unless httputil.DumpRequest fails.  It returns nothing.
LogRequest(cl, lg, dumpFails) ==
    IF ~cl.logRequests THEN lg
    ELSE IF dumpFails THEN lg \cup {"request banner"}
    ELSE lg \cup {"request banner", "request dump"}

\* logResponse: the same for c.logResponses and httputil.DumpResponse.
LogResponse(cl, lg, dumpFails) ==
    IF ~cl.logResponses THEN lg
    ELSE IF dumpFails THEN lg \cup {"response banner"}
    ELSE lg \cup {"response banner", "response dump"}

-----------------------------------------------------------------------------
(* httpDo and the calls that go through it *)

\* Mutant of RequestHost: the unix test comes after the TLS test and
\* overrides it.
RequestHostUnixLast(cl) ==
    LET h1 == IF cl.tlsConfig.present /\ cl.tlsConfig.ServerName # ""
              THEN cl.tlsConfig.ServerName ELSE cl.laddr
    IN  IF cl.proto = "unix" THEN "libstorage-server" ELSE h1

\* the host of the request URL: c.laddr, replaced by the synthetic host for a
\* unix socket, replaced by the TLS server name when there is one
RequestHost(cl) ==
    LET h1 == IF cl.proto = "unix" THEN "libstorage-server" ELSE cl.laddr
    IN  IF cl.tlsConfig.present /\ cl.tlsConfig.ServerName # ""
        THEN cl.tlsConfig.ServerName ELSE h1

\* fmt.Sprintf("http://%s%s", host, path)
RequestURL(cl, path) == "http://" \o RequestHost(cl) \o path

HasSpace(s) == \E i \in 1..Len(s) : SubSeq(s, i, i) = " "

\* http.NewRequest: fails when the URL does not parse (here: a space in the host)
NewRequest(method, url, body) ==
    IF HasSpace(url) THEN ErrNewRequest ELSE NoErr

\* the calls of the client that go through httpDo
Ops == {"Root", "Volumes", "httpPost"}
Method(op) == IF op = "httpPost" THEN "POST" ELSE "GET"
Path(op) == IF op = "Root" THEN "/" ELSE "/volumes"
Target(op) == IF op = "Root" THEN "[]string" ELSE "map"
PayloadsOf(op) == IF op = "httpPost" THEN Payloads ELSE {NilPayload}

NoReturn == [result |-> NilReply, err |-> NoErr]

\* Mutant of RootReturn: the reply is returned together with the error.
RootReturnReplyWithError(reply, err) == [result |-> reply, err |-> err]

\* Root: nil and the error of httpGet, or the reply and nil
RootReturn(reply, err) ==
    IF err # NoErr THEN [result |-> NilReply, err |-> err]
    ELSE [result |-> reply, err |-> NoErr]

\* Volumes: the same
VolumesReturn(reply, err) ==
    IF err # NoErr THEN [result |-> NilReply, err |-> err]
    ELSE [result |-> reply, err |-> NoErr]

\* what the call returns to its caller when httpDo returns err
Return(op, reply, err) ==
    IF op = "Root" THEN RootReturn(reply, err)
    ELSE IF op = "Volumes" THEN VolumesReturn(reply, err)
    ELSE [result |-> NilReply, err |-> err]

Idle ==
    [pc |-> "idle", op |-> "", method |-> "", path |-> "", payload |-> NilPayload,
     reqBody |-> "", url |-> "", res |-> NoResponse, reply |-> NilReply,
     err |-> NoErr, steps |-> <<>>, ret |-> NoReturn]

\* httpDo returns err: the exchange is over and the call returns
Finish(e, err) ==
    [e EXCEPT !.pc = "done", !.err = err, !.ret = Return(e.op, e.reply, err)]

Constructed == dial.state = "returned" /\ dial.client

\* Dial(ctx, config)
DialCall(ctx, config) ==
    /\ dial.state = "init"
    /\ LET r == DialResult(ctx, config)
       IN  /\ dial' = [state |-> r.ret.state, client |-> r.ret.client, err |-> r.ret.err,
                       ctx |-> ctx, config |-> config]
           /\ c' = r.client
    /\ UNCHANGED <<cancelled, x, lastDial, log, calls, fs, scan>>

\* the caller's context is cancelled
Cancel ==
    /\ Constructed
    /\ c.ctx.kind = "user"
    /\ ~cancelled
    /\ cancelled' = TRUE
    /\ UNCHANGED <<dial, c, x, lastDial, log, calls, fs, scan>>

\* a caller calls Root, Volumes or httpPost, which calls httpDo
Call(p, op, payload) ==
    /\ Constructed
    /\ x[p].pc \in {"idle", "done"}
    /\ calls < MaxCalls
    /\ calls' = calls + 1
    /\ x' = [x EXCEPT ![p] =
                [Idle EXCEPT !.pc = "enc", !.op = op, !.method = Method(op),
                             !.path = Path(op), !.payload = payload,
                             !.reply = EmptyReply(Target(op))]]
    /\ UNCHANGED <<dial, c, cancelled, lastDial, log, fs, scan>>

\* reqBody, err := encPayload(payload)
Encode(p) ==
    /\ x[p].pc = "enc"
    /\ LET r  == EncPayload(x[p].payload)
           e1 == [x[p] EXCEPT !.steps = Append(@, "encode"), !.reqBody = r.body]
       IN  x' = [x EXCEPT ![p] =
                    IF r.err # NoErr THEN Finish(e1, r.err)
                    ELSE [e1 EXCEPT !.pc = "build"]]
    /\ UNCHANGED <<dial, c, cancelled, lastDial, log, calls, fs, scan>>

\* Mutant of BuildRequest: the synthetic host is stored in c.laddr instead of
\* the local variable host.
BuildRequestWritingLaddr(p) ==
    /\ x[p].pc = "build"
    /\ c' = [c EXCEPT !.laddr = RequestHost(c)]
    /\ x' = [x EXCEPT ![p] =
                [x[p] EXCEPT !.steps = @ \o <<"build", "send">>,
                             !.url = RequestURL(c, x[p].path),
                             !.pc = "wait"]]
    /\ UNCHANGED <<dial, cancelled, lastDial, log, calls, fs, scan>>

\* the URL, http.NewRequest, c.logRequest(req), and the request is handed to
\* the transport by ctxhttp.Do(c.ctx, c.httpClient, req)
BuildRequest(p) ==
    /\ x[p].pc = "build"
    /\ \E dumpFails \in BOOLEAN :
         LET url == RequestURL(c, x[p].path)
             err == NewRequest(x[p].method, url, x[p].reqBody)
             e1  == [x[p] EXCEPT !.steps = Append(@, "build"), !.url = url]
         IN  IF err # NoErr
             THEN /\ x' = [x EXCEPT ![p] = Finish(e1, err)]
                  /\ log' = log
             ELSE /\ x' = [x EXCEPT ![p] =
                            [e1 EXCEPT !.pc = "wait", !.steps = Append(@, "send")]]
                  /\ log' = LogRequest(c, log, dumpFails)
    /\ UNCHANGED <<dial, c, cancelled, lastDial, calls, fs, scan>>

HasColon(s) == \E i \in 1..Len(s) : SubSeq(s, i, i) = ":"

\* the arguments the HTTP transport passes to its Dial: "tcp" and the host of
\* the request URL, with port 80 when the host names none
DialArgs(cl) ==
    [proto |-> "tcp",
     addr  |-> IF HasColon(RequestHost(cl)) THEN RequestHost(cl)
               ELSE RequestHost(cl) \o ":80"]

\* the transport needs a connection for the request and invokes its Dial
TransportDial(p, proto, addr) ==
    /\ x[p].pc = "wait"
    /\ lastDial' = [called |-> TRUE, proto |-> proto, addr |-> addr,
                    conn |-> Dialer(c, proto, addr)]
    /\ UNCHANGED <<dial, c, cancelled, x, log, calls, fs, scan>>

\* Mutant of AfterDo: after a transport error the request is sent again
\* instead of the error returned.
AfterDoRetrying(e, res, err) ==
    IF err = ErrTransport
    THEN [e EXCEPT !.steps = Append(@, "send")]
    ELSE IF err # NoErr
    THEN Finish(e, err)
    ELSE [e EXCEPT !.pc = "dec", !.res = res]

\* Mutant of AfterDo: the error of ctxhttp.Do is replaced by a transport error.
AfterDoGenericError(e, res, err) ==
    IF err # NoErr
    THEN Finish(e, ErrTransport)
    ELSE [e EXCEPT !.pc = "dec", !.res = res]

\* res, err := ctxhttp.Do(...); if err != nil { return err }
AfterDo(e, res, err) ==
    IF err # NoErr
    THEN Finish(e, err)
    ELSE [e EXCEPT !.pc = "dec", !.res = res]

\* c.logResponse(res) has run: decRes(res.Body, reply), and httpDo returns
DecodeInto(e) ==
    LET r  == DecRes(e.res, e.reply)
        e1 == [e EXCEPT !.steps = Append(@, "decode"), !.reply = r.reply]
    IN  Finish(e1, r.err)

\* ctxhttp.Do returns res and err, and httpDo runs on to its return
DoReturns(p, res, err) ==
    /\ x[p].pc = "wait"
    /\ \E dumpFails \in BOOLEAN :
         LET e1 == AfterDo(x[p], res, err)
         IN  IF e1.pc = "dec"
             THEN /\ log' = LogResponse(c, log, dumpFails)
                  /\ x' = [x EXCEPT ![p] = DecodeInto(e1)]
             ELSE /\ log' = log
                  /\ x' = [x EXCEPT ![p] = e1]
    /\ UNCHANGED <<dial, c, cancelled, lastDial, calls, fs, scan>>

\* the round trip completes with a response
DoResponse(p, res) ==
    /\ ~cancelled
    /\ DoReturns(p, res, NoErr)

\* the round trip fails (dial or network)
DoTransportError(p) ==
    /\ ~cancelled
    /\ DoReturns(p, NoResponse, ErrTransport)

\* the context is done before the round trip completes: ctxhttp.Do cancels the
\* request and returns ctx.Err()
DoCanceled(p) ==
    /\ cancelled
    /\ DoReturns(p, NoResponse, ErrCanceled)

-----------------------------------------------------------------------------
(* getLocalDevices *)

\* the classes \s and \w of Go's regexp
Whitespace == {" ", "\t", "\n", "\f", "\r"}
WordString == "0123456789ABCDEFGHIJKLMNOPQRSTUVWXYZ_abcdefghijklmnopqrstuvwxyz"
WordChars == { SubSeq(WordString, i, i) : i \in 1..Len(WordString) }

Char(s, i) == SubSeq(s, i, i)

\* bufio.Scanner with ScanLines: the next line of the buffer, its "\n" and a
\* trailing "\r" dropped, and the buffer left after it
NextLine(buf) ==
    LET nl   == { i \in 1..Len(buf) : Char(buf, i) = "\n" }
        end  == IF nl = {} THEN Len(buf) + 1
                ELSE CHOOSE i \in nl : \A j \in nl : i <= j
        raw  == SubSeq(buf, 1, end - 1)
        line == IF Len(raw) > 0 /\ Char(raw, Len(raw)) = "\r"
                THEN SubSeq(raw, 1, Len(raw) - 1) ELSE raw
    IN  [line |-> line, rest |-> SubSeq(buf, end + 1, Len(buf))]

\* rx.FindStringSubmatch(l) for rx = ^.+?\s(<prefix>\w+)$ and a prefix of word
\* characters: no match is the empty sequence; a match is the whole match and
\* the group.  .+? takes the fewest characters that let the rest match.
FindStringSubmatch(prefix, l) ==
    LET ks == { k \in 1..Len(l) :
                  /\ \A i \in 1..k : Char(l, i) # "\n"
                  /\ k + 1 <= Len(l)
                  /\ Char(l, k + 1) \in Whitespace
                  /\ Len(l) - (k + 1) >= Len(prefix) + 1
                  /\ SubSeq(l, k + 2, k + 1 + Len(prefix)) = prefix
                  /\ \A i \in (k + 2 + Len(prefix))..Len(l) : Char(l, i) \in WordChars }
    IN  IF ks = {} THEN <<>>
        ELSE LET k == CHOOSE k \in ks : \A j \in ks : k <= j
             IN  <<l, SubSeq(l, k + 2, Len(l))>>

\* Mutant of DevicePath: the whole match is used instead of the group.
DevicePathOfWholeMatch(m) == "/dev/" \o m[1]

\* fmt.Sprintf("/dev/%s", m[1]): m[1] of Go is the second element of m
DevicePath(m) == "/dev/" \o m[2]

ScanIdle == [pc |-> "idle", prefix |-> "", rest |-> "", deviceNames |-> <<>>,
             err |-> NoErr]

\* getLocalDevices(prefix) up to its loop: ioutil.ReadFile of the configured path
ScanCall(prefix) ==
    /\ Constructed
    /\ scan.pc = "idle"
    /\ scan' = IF ~fs.readable \/ fs.path # c.config.localdevicesfile
               THEN [ScanIdle EXCEPT !.pc = "done", !.prefix = prefix, !.err = ErrReadFile]
               ELSE [ScanIdle EXCEPT !.pc = "loop", !.prefix = prefix, !.rest = fs.content]
    /\ UNCHANGED <<dial, c, cancelled, x, lastDial, log, calls, fs>>

\* one turn of the loop: scan.Scan(), the match and the append
ScanLine ==
    /\ scan.pc = "loop"
    /\ Len(scan.rest) > 0
    /\ LET n == NextLine(scan.rest)
           m == FindStringSubmatch(scan.prefix, n.line)
       IN  scan' = [scan EXCEPT
                      !.rest = n.rest,
                      !.deviceNames = IF Len(m) > 0 THEN Append(@, DevicePath(m)) ELSE @]
    /\ UNCHANGED <<dial, c, cancelled, x, lastDial, log, calls, fs>>

\* scan.Scan() is false at the end of the buffer: return deviceNames, nil
ScanReturn ==
    /\ scan.pc = "loop"
    /\ Len(scan.rest) = 0
    /\ scan' = [scan EXCEPT !.pc = "done"]
    /\ UNCHANGED <<dial, c, cancelled, x, lastDial, log, calls, fs>>

\* lines of a local devices file
FileLines ==
    {"sda 8:0 disk", "xvdb 202:16 disk", "no-match-line", "202:16 disk xvdb",
     "xvda xvdb1"}
Prefixes == {"xvd", "sd"}

RECURSIVE Contents(_)
Contents(n) ==
    IF n = 0 THEN {""}
    ELSE {""} \cup { l \o "\n" \o r : l \in FileLines, r \in Contents(n - 1) }

\* the files: unreadable, or up to MaxLines lines, the last one with or
\* without its line end
Files ==
    { [path |-> DevicesFile, readable |-> FALSE, content |-> ""] }
    \cup { [path |-> DevicesFile, readable |-> TRUE, content |-> s] : s \in Contents(MaxLines) }
    \cup { [path |-> DevicesFile, readable |-> TRUE, content |-> SubSeq(s, 1, Len(s) - 1)] :
             s \in Contents(MaxLines) \ {""} }

-----------------------------------------------------------------------------
(* Specifications *)

NoFile == [path |-> DevicesFile, readable |-> FALSE, content |-> ""]

\* before Dial is called
Init ==
    /\ dial = [state |-> "init", client |-> FALSE, err |-> NoErr,
               ctx |-> NilCtx, config |-> NilConfig]
    /\ c = NoClient
    /\ cancelled = FALSE
    /\ x = [p \in Callers |-> Idle]
    /\ lastDial = NoDial
    /\ log = {}
    /\ calls = 0
    /\ fs = NoFile
    /\ scan = ScanIdle

Next ==
    \/ \E ctx \in {NilCtx, UserCtx}, config \in Configs \cup {NilConfig} :
         DialCall(ctx, config)
    \/ Cancel
    \/ \E p \in Callers, op \in Ops : \E payload \in PayloadsOf(op) : Call(p, op, payload)
    \/ \E p \in Callers : Encode(p)
    \/ \E p \in Callers : BuildRequest(p)
    \/ \E p \in Callers : TransportDial(p, DialArgs(c).proto, DialArgs(c).addr)
    \/ \E p \in Callers, res \in Responses : DoResponse(p, res)
    \/ \E p \in Callers : DoTransportError(p)
    \/ \E p \in Callers : DoCanceled(p)

Spec == Init /\ [][Next]_vars

\* a started exchange runs on: its goroutine is scheduled, and a done context
\* wakes the select of ctxhttp.Do.  Nothing makes a server answer.
Progress(p) == Encode(p) \/ BuildRequest(p) \/ DoCanceled(p)

FairSpec == Spec /\ \A p \in Callers : WF_vars(Progress(p))

\* a client built by Dial, and some local devices file
ScanConfig ==
    [isNil |-> FALSE, host |-> "unix:///run/ls.sock",
     tls |-> [requested |-> FALSE, material |-> "ok", serverName |-> ""],
     logrequest |-> FALSE, logresponse |-> FALSE, localdevicesfile |-> DevicesFile]

ScanInit ==
    /\ dial = [state |-> "returned", client |-> TRUE, err |-> NoErr,
               ctx |-> NilCtx, config |-> ScanConfig]
    /\ c = DialResult(NilCtx, ScanConfig).client
    /\ cancelled = FALSE
    /\ x = [p \in Callers |-> Idle]
    /\ lastDial = NoDial
    /\ log = {}
    /\ calls = 0
    /\ fs \in Files
    /\ scan = ScanIdle

ScanNext ==
    \/ \E prefix \in Prefixes : ScanCall(prefix)
    \/ ScanLine
    \/ ScanReturn

ScanSpec == ScanInit /\ [][ScanNext]_vars

-----------------------------------------------------------------------------
(* Properties *)

Has(seq, v) == \E i \in 1..Len(seq) : seq[i] = v

StepOrder == <<"encode", "build", "send", "decode">>

\* C1: the host of every request URL is the TLS server name when a TLS
\* configuration with a non-empty server name is present, whatever the
\* transport kind; otherwise "libstorage-server" when the transport kind is
\* unix; otherwise the resolved address; and the URL is "http://" host path.
C1_RequestHostPriority ==
    \A p \in Callers :
        Has(x[p].steps, "build") =>
            LET host == IF c.tlsConfig.present /\ c.tlsConfig.ServerName # ""
                        THEN c.tlsConfig.ServerName
                        ELSE IF c.proto = "unix" THEN "libstorage-server"
                        ELSE c.laddr
            IN  /\ x[p].url = "http://" \o host \o x[p].path
                /\ c.proto = ParseAddress(c.config.host).proto
                /\ c.laddr = ParseAddress(c.config.host).laddr

\* an exchange over a unix socket under a TLS server name has built its URL
C1_Witness ==
    \E p \in Callers :
        /\ Has(x[p].steps, "build")
        /\ c.proto = "unix"
        /\ c.tlsConfig.present
        /\ x[p].url = "http://storage.example/volumes"

\* C2: every invocation of the dialer, whatever protocol and address it is
\* passed, connects to the transport kind and address resolved by Dial, plainly
\* without a TLS configuration and over TLS with one.
C2_DialerTargetsResolved ==
    /\ lastDial.called =>
        /\ lastDial.conn.network = ParseAddress(dial.config.host).proto
        /\ lastDial.conn.address = ParseAddress(dial.config.host).laddr
        /\ lastDial.conn.network = c.proto
        /\ lastDial.conn.address = c.laddr
        /\ lastDial.conn.tls = c.tlsConfig.present
    /\ Constructed =>
          \A proto \in {"tcp", "udp", "unix"}, addr \in {"elsewhere:53", "/tmp/other.sock"} :
              Dialer(c, proto, addr) =
                  [network |-> c.proto, address |-> c.laddr, tls |-> c.tlsConfig.present]

\* the transport asked for another network and address, and TLS is configured
C2_Witness ==
    /\ lastDial.called
    /\ lastDial.proto # c.proto
    /\ lastDial.addr # c.laddr
    /\ c.proto = "unix"
    /\ lastDial.conn.tls

\* C3: a call of Dial with a configuration returns; it returns an error and
\* no client when libstorage.host is empty, or does not parse, or the TLS
\* settings do not parse; otherwise it returns a client and no error, and the
\* client's transport kind and address are the ones parsed from
\* libstorage.host.
C3_DialErrors ==
    (dial.state # "init" /\ ~dial.config.isNil) =>
        LET cfg == dial.config
            pa  == ParseAddress(cfg.host)
            bad == \/ cfg.host = ""
                   \/ pa.err # NoErr
                   \/ ParseTLSConfig(cfg.tls).err # NoErr
        IN  /\ dial.state = "returned"
            /\ bad => ~dial.client /\ dial.err # NoErr /\ c = NoClient
            /\ ~bad => /\ dial.client
                       /\ dial.err = NoErr
                       /\ c.proto = pa.proto
                       /\ c.laddr = pa.laddr

\* Dial returned the error of the TLS settings for a host that parses
C3_Witness ==
    /\ dial.state = "returned"
    /\ dial.config.host = "unix:///run/ls.sock"
    /\ dial.err = ErrTLS
    /\ ~dial.client

\* C4: a call of Dial with a nil config does not crash: it goes on with a
\* default configuration and returns.
C4_NilConfigDefault ==
    (dial.state # "init" /\ dial.config.isNil) => dial.state = "returned"

\* C5: an exchange waiting for its round trip when the context is cancelled
\* returns, and returns the context's error without decoding anything.
C5_CancelReturnsContextError ==
    /\ \A p \in Callers :
          (x[p].pc = "wait" /\ cancelled)
             ~> (/\ x[p].pc = "done"
                 /\ x[p].err = ErrCanceled
                 /\ x[p].ret.err = ErrCanceled
                 /\ ~Has(x[p].steps, "decode"))
    /\ [][\A p \in Callers :
            (x[p].pc = "wait" /\ cancelled /\ x'[p] # x[p]) =>
                /\ x'[p].pc = "done"
                /\ x'[p].err = ErrCanceled
                /\ x'[p].ret.err = ErrCanceled
                /\ ~Has(x'[p].steps, "decode")]_vars

\* an exchange was cancelled during its round trip and has returned
C5_Witness ==
    \E p \in Callers :
        /\ cancelled
        /\ x[p].pc = "done"
        /\ x[p].err = ErrCanceled
        /\ x[p].steps = <<"encode", "build", "send">>

\* C6: once Dial has returned the client no step of any caller changes a
\* field of it; every URL built and every connection dialled is the one the
\* client as constructed gives.
C6_ClientImmutable ==
    [][Constructed =>
         LET built == DialResult(dial.ctx, dial.config).client
         IN  /\ c' = c
             /\ c' = built
             /\ \A p \in Callers :
                   Has(x'[p].steps, "build") => x'[p].url = RequestURL(built, x'[p].path)
             /\ lastDial'.called => lastDial'.conn = Dialer(built, "", "")]_vars

\* two callers are in their round trips at once, after a dial over a unix socket
C6_Witness ==
    /\ x["g1"].pc = "wait"
    /\ x["g2"].pc = "wait"
    /\ c.proto = "unix"
    /\ lastDial.called

\* C7: a call of Root or Volumes returns the decoded reply and a nil error,
\* or a nil result and the error of httpDo unchanged; it returns an error
\* whenever encoding, building the request, the round trip or decoding failed.
C7_RootVolumesOutcome ==
    \A p \in Callers :
        (x[p].pc = "done" /\ x[p].op \in {"Root", "Volumes"}) =>
            LET e == x[p]
                failed ==
                    \/ EncPayload(e.payload).err # NoErr
                    \/ NewRequest(e.method, RequestURL(c, e.path), e.reqBody) # NoErr
                    \/ Len(e.steps) = 3
                    \/ DecRes(e.res, EmptyReply(Target(e.op))).err # NoErr
            IN  /\ \/ /\ e.ret.err = NoErr
                      /\ ~e.ret.result.isNil
                      /\ e.ret.result = DecRes(e.res, EmptyReply(Target(e.op))).reply
                      /\ e.steps = StepOrder
                   \/ /\ e.ret.err # NoErr
                      /\ e.ret.result = NilReply
                      /\ e.ret.err = e.err
                /\ failed => e.ret.err # NoErr

\* Root ended with the error of decoding an object into a list of strings
C7_Witness ==
    \E p \in Callers :
        /\ x[p].pc = "done"
        /\ x[p].op = "Root"
        /\ x[p].res.text = "{\"svc\":[]}"
        /\ x[p].ret = [result |-> NilReply, err |-> ErrUnmarshal]

\* the error httpDo returns, from the payload, the URL, the outcome of the
\* round trip and the response alone
ExpectedErr(e) ==
    IF EncPayload(e.payload).err # NoErr THEN EncPayload(e.payload).err
    ELSE IF HasSpace(e.url) THEN ErrNewRequest
    ELSE IF Len(e.steps) = 3 THEN e.err
    ELSE DecRes(e.res, EmptyReply(Target(e.op))).err

\* C8: request logging happens exactly under logRequests and response
\* logging exactly under logResponses; what an exchange returns is fixed by
\* its payload, URL, round trip and response, whatever the flags are and
\* whether or not a dump fails.
C8_LoggingIndependent ==
    /\ "request banner" \in log => c.logRequests
    /\ "response banner" \in log => c.logResponses
    /\ \A p \in Callers :
          /\ (c.logRequests /\ Len(x[p].steps) >= 2 /\ ~HasSpace(x[p].url))
                => "request banner" \in log
          /\ (c.logResponses /\ Has(x[p].steps, "decode"))
                => "response banner" \in log
    /\ "request dump" \in log => "request banner" \in log
    /\ "response dump" \in log => "response banner" \in log
    /\ \A p \in Callers :
          x[p].pc = "done" =>
             /\ x[p].err = ExpectedErr(x[p])
             /\ x[p].err \in {ErrTransport, ErrCanceled} <=> Len(x[p].steps) = 3
             /\ x[p].reply = IF x[p].err = NoErr
                             THEN [EmptyReply(Target(x[p].op)) EXCEPT !.json = x[p].res.text]
                             ELSE EmptyReply(Target(x[p].op))

\* both dumps failed, only the banners were logged, and the exchange succeeded
C8_Witness ==
    /\ log = {"request banner", "response banner"}
    /\ \E p \in Callers : x[p].pc = "done" /\ x[p].err = NoErr /\ x[p].op = "Volumes"

\* the file and the prefix of the device scanner scenario
ScenarioFile == "sda 8:0 disk\nxvdb 202:16 disk\nno-match-line\n"
ScenarioPrefix == "xvd"
\* the same file with the device name at the end of its line
DeviceLastFile == "sda 8:0 disk\n202:16 disk xvdb\nno-match-line\n"

\* C9 as stated: for the scenario file and prefix getLocalDevices returns
\* exactly <<"/dev/xvdb">>.
C9_ScenarioReturnsXvdb ==
    (scan.pc = "done" /\ fs.readable /\ fs.content = ScenarioFile
        /\ scan.prefix = ScenarioPrefix)
    => scan.deviceNames = <<"/dev/xvdb">>

\* C9 amended: for the scenario file and prefix getLocalDevices returns the
\* empty sequence and no error, no line ending in whitespace, the prefix and
\* word characters; with the device name last on its line it returns
\* exactly <<"/dev/xvdb">>.
C9_ScenarioReturnsNothing ==
    (scan.pc = "done" /\ fs.readable /\ scan.prefix = ScenarioPrefix) =>
        /\ fs.content = ScenarioFile => scan.deviceNames = <<>> /\ scan.err = NoErr
        /\ fs.content = DeviceLastFile =>
              scan.deviceNames = <<"/dev/xvdb">> /\ scan.err = NoErr

\* getLocalDevices has returned for the scenario file and prefix
C9_Witness ==
    /\ scan.pc = "done"
    /\ fs.readable
    /\ fs.content = ScenarioFile
    /\ scan.prefix = ScenarioPrefix
    /\ scan.err = NoErr

\* C10: an exchange runs encode, build, send, decode in this order, each at
\* most once; the step that fails is its last, and its error is the one the
\* exchange returns.
C10_StepsOnceInOrder ==
    \A p \in Callers :
        LET e == x[p]
            n == Len(e.steps)
        IN  /\ n <= 4
            /\ e.steps = SubSeq(StepOrder, 1, n)
            /\ e.pc = "build" => n = 1 /\ EncPayload(e.payload).err = NoErr
            /\ e.pc = "wait" => n = 3 /\ ~HasSpace(e.url)
            /\ e.pc = "done" =>
                  /\ n >= 1
                  /\ e.err = ErrMarshal <=> n = 1
                  /\ e.err = ErrNewRequest <=> n = 2
                  /\ e.err \in {ErrTransport, ErrCanceled} <=> n = 3
                  /\ e.err \in {ErrReadBody, ErrUnmarshal, NoErr} <=> n = 4
                  /\ e.ret.err = e.err

\* an exchange ended with a transport error after one send and no decode
C10_Witness ==
    \E p \in Callers :
        /\ x[p].pc = "done"
        /\ x[p].err = ErrTransport
        /\ x[p].steps = <<"encode", "build", "send">>

====
